---- MODULE Spec2Model ----
(***************************************************************************)
(* Model of syncer.Syncer (src/syncer/syncer.go): UploadDiffs, putObject,  *)
(* splitObject and putObjs, together with the collaborators they call:     *)
(* the splitter goroutine (splitter.SplitFile, splitter.CleanUp), the      *)
(* ledger (setMultipart, recordParts, updateUploadStatus,                  *)
(* updateUploadStatusPart), the local file system and the object store.    *)
(*                                                                         *)
(* A path is a pair <<f, k>>: <<f, 0>> is source file f, <<f, k>> with     *)
(* k >= 1 is the k-th piece the splitter writes for source file f.         *)
(* A size is a pair of limbs <<hi, lo>> standing for the int64 value       *)
(* hi * 65536 + lo, so that 4294967296 = <<65536, 0>>.                     *)
(***************************************************************************)
EXTENDS Integers, Sequences, FiniteSets, TLC

\* Bounds of the model.
MaxUnits == 3
MaxPieces == 2
MaxReruns == 1
MaxResumeUnits == 1

\* if info.Size() > 4294967296  (4294967296 = 65536 * 65536 + 0)
Threshold == <<65536, 0>>

\* File sizes os.Stat may report for a source file:
\* 4 GiB - 1, 4 GiB, 4 GiB + 1 and 4 GiB + 65536.
Sizes == {<<65535, 65535>>, <<65536, 0>>, <<65536, 1>>, <<65537, 0>>}

\* Size of a piece written by the splitter: never above the threshold.
PieceSize == Threshold

VARIABLES
    units,       \* diffs: the paths handed to UploadDiffs
    run,         \* number of UploadDiffs runs started so far
    pc,          \* control point of the UploadDiffs call stack
    lvl,         \* "unit": putObject called by UploadDiffs; "part": by putObjs
    i,           \* loop index of UploadDiffs (line 35)
    j,           \* loop index of putObjs (line 212)
    pieces,      \* splitObject's local pieces, then putObjs' objs
    info,        \* info.Size() in the putObject frame that is executing
    err,         \* the err variable of the frame that is executing
    soErr,       \* the error splitObject returned
    result,      \* the value UploadDiffs returned
    id,          \* the transfer id setMultipart returned
    spl,         \* state of the goroutine running splitter.SplitFile
    emitted,     \* pieces the splitter has written so far, in order
    term,        \* the terminal value the splitter sends on retErr
    cleaned,     \* the list handed to splitter.CleanUp by the defer
    kept,        \* pieces of that list whose os.Remove failed
    disk,        \* piece files present on local storage
    fileStatus,  \* ledger: upload status per source file
    transfers,   \* ledger: one entry per setMultipart call, in order
    partRecs,    \* ledger: part records
    startStatus, \* fileStatus as it was when the current run started
    startParts,  \* part paths that were Uploaded when the current run started
    trace        \* events of the current run, in order

vars == <<units, run, pc, lvl, i, j, pieces, info, err, soErr, result, id,
          spl, emitted, term, cleaned, kept, disk, fileStatus, transfers,
          partRecs, startStatus, startParts, trace>>

ctl == <<pc, lvl, i, j, pieces, info, err, soErr, result, id>>
splitter == <<spl, emitted, term>>
cleanup == <<cleaned, kept>>
ledger == <<fileStatus, transfers, partRecs>>
input == <<units, run, startStatus, startParts>>

----------------------------------------------------------------------------
\* Values

NoPath == <<0, 0>>
NoSize == <<0, 0>>
Nil == <<"nil", NoPath>>
Running == <<"running", NoPath>>
Err(kind, obj) == <<kind, obj>>
Ev(kind, obj) == <<kind, obj>>

Range(s) == {s[k] : k \in 1..Len(s)}
IsPiece(obj) == obj[2] > 0
PiecePath(src, k) == <<src[1], k>>

\* The object of iteration k of for i, obj := range objs (line 212).
PartAtReversed(objs, k) == objs[Len(objs) + 1 - k]

PartAt(objs, k) == objs[k]

\* The path the executing putObject was called with.
CurObj == IF lvl = "unit" THEN units[i] ELSE PartAt(pieces, j)

\* The source file splitObject works on: only units are ever split.
Src == units[i]

\* os.Stat and os.Open: a piece is found when it is on local storage; a
\* source file may or may not be there.
FileOutcomes(obj) == IF IsPiece(obj) THEN {obj \in disk} ELSE BOOLEAN
StatSizes(obj) == IF IsPiece(obj) THEN {PieceSize} ELSE Sizes

\* A ledger write returns nil or an error.
LedgerOutcomes(kind, obj) == {Nil, Err(kind, obj)}

\* info.Size() > 4294967296, on limbs (line 129).
ClassifyGE(size) ==
    \/ size[1] > Threshold[1]
    \/ size[1] = Threshold[1] /\ size[2] >= Threshold[2]

Classify(size) ==
    \/ size[1] > Threshold[1]
    \/ size[1] = Threshold[1] /\ size[2] > Threshold[2]

\* The err != nil checks, one per call site.
Ignored(e) == FALSE

\* line 42, after putObject in UploadDiffs
PutObjectFailed(e) == e # Nil
\* line 47, after updateUploadStatus
StatusFailed(e) == e # Nil
\* line 132, after splitObject
SplitFailed(e) == e # Nil
\* line 200, after recordParts
RecordPartsFailed(e) == e # Nil
\* line 215, after putObject in putObjs
PartPutFailed(e) == e # Nil
\* line 220, after updateUploadStatusPart
PartStatusFailed(e) == e # Nil

----------------------------------------------------------------------------
\* The state before UploadDiffs is called with a list of n units whose
\* ledger statuses are drawn from the set statuses.
InitWith(n, statuses) ==
    /\ units = [k \in 1..n |-> <<k, 0>>]
    /\ fileStatus \in [1..n -> statuses]
    /\ run = 0
    /\ pc = "idle"
    /\ lvl = "unit"
    /\ i = 0
    /\ j = 0
    /\ pieces = <<>>
    /\ info = NoSize
    /\ err = Nil
    /\ soErr = Nil
    /\ result = Running
    /\ id = 0
    /\ spl = "idle"
    /\ emitted = <<>>
    /\ term = Nil
    /\ cleaned = <<>>
    /\ kept = {}
    /\ disk = {}
    /\ transfers = <<>>
    /\ partRecs = {}
    /\ startStatus = fileStatus
    /\ startParts = {}
    /\ trace = <<>>

\* A diff list of any length, over a ledger in which no unit has been
\* uploaded yet or an earlier run has marked every unit Uploaded.
Init ==
    \E n \in 0..MaxUnits, st \in {"Pending", "Uploaded"} : InitWith(n, {st})

\* A fresh ledger; later runs start from what the earlier ones left.
InitResume == \E n \in 0..MaxResumeUnits : InitWith(n, {"Pending"})

----------------------------------------------------------------------------
\* UploadDiffs

\* return err (lines 38, 44, 49) / return nil (lines 32, 54)
Return(e) ==
    /\ pc' = "done"
    /\ result' = e

\* count == 0, line 30, with the sense of the test turned around.
NoDiffsInverted(diffs) == Len(diffs) # 0

\* count := len(diffs); if count == 0: lines 29-30.
NoDiffs(diffs) == Len(diffs) = 0

\* UploadDiffs(ctx, diffs, deep) is entered by a fresh process: lines 28-35.
Enter ==
    /\ run' = run + 1
    /\ startStatus' = fileStatus
    /\ startParts' = {r.path : r \in {q \in partRecs : q.status = "Uploaded"}}
    /\ trace' = <<>>
    /\ lvl' = "unit"
    /\ j' = 0
    /\ pieces' = <<>>
    /\ info' = NoSize
    /\ err' = Nil
    /\ soErr' = Nil
    /\ id' = 0
    /\ spl' = "idle"
    /\ emitted' = <<>>
    /\ term' = Nil
    /\ cleaned' = <<>>
    /\ kept' = {}
    /\ IF NoDiffs(units)
         THEN /\ Return(Nil)
              /\ i' = 0
         ELSE /\ pc' = "ud_spinner"
              /\ result' = Running
              /\ i' = 1
    /\ UNCHANGED <<units, disk, ledger>>

\* The first run.
StartRun ==
    /\ pc = "idle"
    /\ Enter

\* A later run over the same diffs, after the previous run returned or the
\* process stopped.
Rerun ==
    /\ pc \in {"done", "crashed"}
    /\ run <= MaxReruns
    /\ Enter

\* pterm.DefaultSpinner.Start and its error check: lines 36-39.
UD_Spinner ==
    /\ pc = "ud_spinner"
    /\ \E ok \in BOOLEAN :
         IF ok
           THEN /\ pc' = "stat"
                /\ UNCHANGED result
           ELSE Return(Err("spinner", units[i]))
    /\ lvl' = "unit"
    /\ UNCHANGED <<i, j, pieces, info, err, soErr, id>>
    /\ UNCHANGED <<input, splitter, cleanup, disk, ledger, trace>>

\* The batch aborts and the statuses this run committed are taken back.
RolledBack(st) == startStatus

\* if err != nil { return err }, lines 42-45: the file statuses as the
\* return leaves them.
OnAbort(st) == st

\* putObject has returned err: lines 42-52, and line 54 after the last unit.
UD_AfterPut ==
    /\ pc = "ud_ret"
    /\ IF PutObjectFailed(err)
         THEN /\ Return(err)
              /\ fileStatus' = OnAbort(fileStatus)
              /\ UNCHANGED <<i, trace>>
         ELSE \E e \in LedgerOutcomes("ledger", units[i]) :
                /\ IF e = Nil
                     THEN /\ fileStatus' =
                               [fileStatus EXCEPT ![units[i][1]] = "Uploaded"]
                          /\ trace' = Append(trace, Ev("markfile", units[i]))
                     ELSE /\ trace' = Append(trace, Ev("markerr", units[i]))
                          /\ UNCHANGED fileStatus
                /\ IF StatusFailed(e)
                     THEN /\ Return(e)
                          /\ UNCHANGED i
                     ELSE IF i < Len(units)
                            THEN /\ i' = i + 1
                                 /\ pc' = "ud_spinner"
                                 /\ UNCHANGED result
                            ELSE /\ Return(Nil)
                                 /\ UNCHANGED i
    /\ UNCHANGED <<lvl, j, pieces, info, err, soErr, id>>
    /\ UNCHANGED <<input, splitter, cleanup, disk, transfers, partRecs>>

----------------------------------------------------------------------------
\* putObject

\* return err / return nil of putObject, to the frame that called it:
\* UploadDiffs (line 41) or putObjs (line 214).
RetPutObject(e) ==
    /\ err' = e
    /\ info' = NoSize
    /\ pc' = IF lvl = "unit" THEN "ud_ret" ELSE "pobjs_ret"

\* os.Stat and the size check: lines 124-131.
PO_Stat ==
    /\ pc = "stat"
    /\ \E ok \in FileOutcomes(CurObj), size \in StatSizes(CurObj) :
         IF ok
           THEN /\ info' = size
                /\ pc' = IF Classify(size) THEN "so_setmp" ELSE "open"
                /\ UNCHANGED err
           ELSE RetPutObject(Err("stat", CurObj))
    /\ trace' = Append(trace, Ev("stat", CurObj))
    /\ UNCHANGED <<lvl, i, j, pieces, soErr, result, id>>
    /\ UNCHANGED <<input, splitter, cleanup, disk, ledger>>

\* os.Open: lines 138-142.
PO_Open ==
    /\ pc = "open"
    /\ \E ok \in FileOutcomes(CurObj) :
         IF ok
           THEN /\ pc' = "put"
                /\ UNCHANGED <<info, err>>
           ELSE RetPutObject(Err("open", CurObj))
    /\ trace' = Append(trace, Ev("open", CurObj))
    /\ UNCHANGED <<lvl, i, j, pieces, soErr, result, id>>
    /\ UNCHANGED <<input, splitter, cleanup, disk, ledger>>

\* app.S3Client.PutObject is called: lines 144-153.
PO_PutIssue ==
    /\ pc = "put"
    /\ pc' = "putwait"
    /\ trace' = Append(trace, Ev("put", CurObj))
    /\ UNCHANGED <<lvl, i, j, pieces, info, err, soErr, result, id>>
    /\ UNCHANGED <<input, splitter, cleanup, disk, ledger>>

\* app.S3Client.PutObject returns: lines 148-157.
PO_PutReturn ==
    /\ pc = "putwait"
    /\ \E ok \in BOOLEAN :
         IF ok
           THEN /\ trace' = Append(trace, Ev("putok", CurObj))
                /\ RetPutObject(Nil)
           ELSE /\ trace' = Append(trace, Ev("puterr", CurObj))
                /\ RetPutObject(Err("put", CurObj))
    /\ UNCHANGED <<lvl, i, j, pieces, soErr, result, id>>
    /\ UNCHANGED <<input, splitter, cleanup, disk, ledger>>

\* splitObject has returned (pieces, err): lines 131-135.
PO_AfterSplit ==
    /\ pc = "po_split_ret"
    /\ IF SplitFailed(soErr)
         THEN /\ err' = soErr
              /\ info' = NoSize
              /\ pc' = "ud_ret"
         ELSE /\ pc' = "pobjs_spinner"
              /\ UNCHANGED <<info, err>>
    /\ UNCHANGED <<lvl, i, j, pieces, soErr, result, id>>
    /\ UNCHANGED <<input, splitter, cleanup, disk, ledger, trace>>

----------------------------------------------------------------------------
\* splitObject

\* app.setMultipart(obj): lines 162-169. A new transfer record per call.
SO_SetMultipart ==
    /\ pc = "so_setmp"
    /\ \E e \in LedgerOutcomes("setmp", Src) :
         IF e = Nil
           THEN /\ transfers' = Append(transfers, Src)
                /\ id' = Len(transfers) + 1
                /\ trace' = Append(trace, Ev("setmp", Src))
                /\ pc' = "so_go"
                /\ UNCHANGED soErr
           ELSE /\ soErr' = e
                /\ pc' = "po_split_ret"
                /\ UNCHANGED <<transfers, id, trace>>
    /\ UNCHANGED <<lvl, i, j, pieces, info, err, result>>
    /\ UNCHANGED <<input, splitter, cleanup, disk, fileStatus, partRecs>>

\* The channels are made and the goroutine is started: lines 171-175.
SO_Go ==
    /\ pc = "so_go"
    /\ pieces' = <<>>
    /\ spl' = "working"
    /\ emitted' = <<>>
    /\ term' = Nil
    /\ cleaned' = <<>>
    /\ kept' = {}
    /\ trace' = Append(trace, Ev("go", Src))
    /\ pc' = "so_spinner"
    /\ UNCHANGED <<lvl, i, j, info, err, soErr, result, id>>
    /\ UNCHANGED <<input, disk, ledger>>

\* pterm.DefaultSpinner.Start and its error check: lines 176-179.
SO_Spinner ==
    /\ pc = "so_spinner"
    /\ \E ok \in BOOLEAN :
         IF ok
           THEN /\ pc' = "so_loop"
                /\ UNCHANGED soErr
           ELSE /\ soErr' = Err("spinner", Src)
                /\ pc' = "po_split_ret"
    /\ UNCHANGED <<lvl, i, j, pieces, info, err, result, id>>
    /\ UNCHANGED <<input, splitter, cleanup, disk, ledger, trace>>

\* The received piece put at the head of the list instead of its end.
CollectAtFront(ps, piece) == <<piece>> \o ps

\* case piece := <-progress with a goto End after the append: the loop is
\* left on the first piece, the splitter still running.
SO_RecvPieceLeave ==
    /\ pc = "so_loop"
    /\ spl = "sendPiece"
    /\ pieces' = Append(pieces, emitted[Len(emitted)])
    /\ spl' = "working"
    /\ pc' = "so_end"
    /\ UNCHANGED <<lvl, i, j, info, err, soErr, result, id>>
    /\ UNCHANGED <<input, emitted, term, cleanup, disk, ledger, trace>>

\* pieces = append(pieces, piece): line 183.
Collect(ps, piece) == Append(ps, piece)

\* case piece := <-progress: lines 182-185. The value received is the one
\* the splitter is blocked sending.
SO_RecvPiece ==
    /\ pc = "so_loop"
    /\ spl = "sendPiece"
    /\ pieces' = Collect(pieces, emitted[Len(emitted)])
    /\ spl' = "working"
    /\ UNCHANGED <<pc, lvl, i, j, info, err, soErr, result, id>>
    /\ UNCHANGED <<input, emitted, term, cleanup, disk, ledger, trace>>

\* case err = <-retErr with the loop left by a break, which leaves only the
\* select: the for loop goes round again.
SO_RecvDoneBreak ==
    /\ pc = "so_loop"
    /\ spl = "sendDone"
    /\ err' = term
    /\ spl' = "exited"
    /\ trace' = Append(trace, Ev("term", Src))
    /\ UNCHANGED <<pc, lvl, i, j, pieces, info, soErr, result, id>>
    /\ UNCHANGED <<input, emitted, term, cleanup, disk, ledger>>

\* case err = <-retErr, then goto End: lines 186-192.
SO_RecvDone ==
    /\ pc = "so_loop"
    /\ spl = "sendDone"
    /\ err' = term
    /\ spl' = "exited"
    /\ trace' = Append(trace, Ev("term", Src))
    /\ pc' = "so_end"
    /\ UNCHANGED <<lvl, i, j, pieces, info, soErr, result, id>>
    /\ UNCHANGED <<input, emitted, term, cleanup, disk, ledger>>

\* defer splitter.CleanUp(pieces), line 197: the list the deferred call is
\* given is the value of pieces when the defer statement runs.
DeferredBeforeLoop(ps) == <<>>

DeferredCleanUp(ps) == ps

\* recordParts(id, pieces): one Pending record per piece, sequence from 0.
RecordParts(tid, ps) ==
    {[id |-> tid, path |-> ps[k], seq |-> k - 1, status |-> "Pending"] :
        k \in 1..Len(ps)}

\* End: the defer, recordParts, the return and the deferred CleanUp:
\* lines 195-204. os.Remove may fail on any piece; the defer drops
\* CleanUp's result.
SO_End ==
    /\ pc = "so_end"
    /\ cleaned' = DeferredCleanUp(pieces)
    /\ \E e \in LedgerOutcomes("recparts", Src) :
         /\ err' = e
         /\ IF e = Nil
              THEN /\ partRecs' = partRecs \cup RecordParts(id, pieces)
                   /\ trace' = Append(trace, Ev("recparts", Src))
              ELSE UNCHANGED <<partRecs, trace>>
         /\ soErr' = IF RecordPartsFailed(e) THEN e ELSE Nil
    /\ \E failed \in SUBSET Range(cleaned') :
         /\ kept' = failed
         /\ disk' = disk \ (Range(cleaned') \ failed)
    /\ pc' = "po_split_ret"
    /\ UNCHANGED <<lvl, i, j, pieces, info, result, id>>
    /\ UNCHANGED <<input, splitter, fileStatus, transfers>>

----------------------------------------------------------------------------
\* splitter.SplitFile, running as a goroutine

\* The splitter writes the next piece file and blocks sending its path on
\* the unbuffered progress channel.
SplitFileProduce ==
    /\ pc # "crashed"
    /\ spl = "working"
    /\ Len(emitted) < MaxPieces
    /\ emitted' = Append(emitted, PiecePath(Src, Len(emitted) + 1))
    /\ disk' = disk \cup {PiecePath(Src, Len(emitted) + 1)}
    /\ spl' = "sendPiece"
    /\ UNCHANGED <<ctl, input, term, cleanup, ledger, trace>>

\* The splitter is done, or has failed, and blocks sending its one terminal
\* value on the unbuffered completion channel. A split that succeeds has
\* written at least one piece.
SplitFileFinish ==
    /\ pc # "crashed"
    /\ spl = "working"
    /\ \E ok \in BOOLEAN :
         /\ ok => Len(emitted) >= 1
         /\ term' = IF ok THEN Nil ELSE Err("split", Src)
    /\ spl' = "sendDone"
    /\ UNCHANGED <<ctl, input, emitted, cleanup, disk, ledger, trace>>

----------------------------------------------------------------------------
\* putObjs

\* return of putObjs, which putObject returns unchanged (line 135).
RetPutObjs(e) ==
    /\ err' = e
    /\ info' = NoSize
    /\ lvl' = "unit"
    /\ pc' = "ud_ret"

\* pterm.DefaultSpinner.Start, its error check and the loop entry:
\* lines 207-212, and 224-225 when objs is empty.
POBJS_Spinner ==
    /\ pc = "pobjs_spinner"
    /\ \E ok \in BOOLEAN :
         IF ok
           THEN IF Len(pieces) = 0
                  THEN /\ RetPutObjs(Nil)
                       /\ UNCHANGED j
                  ELSE /\ j' = 1
                       /\ lvl' = "part"
                       /\ pc' = "stat"
                       /\ UNCHANGED <<info, err>>
           ELSE /\ RetPutObjs(Err("spinner", Src))
                /\ UNCHANGED j
    /\ UNCHANGED <<i, pieces, soErr, result, id>>
    /\ UNCHANGED <<input, splitter, cleanup, disk, ledger, trace>>

\* updateUploadStatusPart(obj): every record of that path becomes Uploaded.
MarkPart(recs, obj) ==
    {IF r.path = obj THEN [r EXCEPT !.status = "Uploaded"] ELSE r : r \in recs}

\* putObject has returned err inside the loop: lines 215-225.
POBJS_AfterPut ==
    /\ pc = "pobjs_ret"
    /\ IF PartPutFailed(err)
         THEN /\ RetPutObjs(err)
              /\ UNCHANGED <<j, partRecs, trace>>
         ELSE \E e \in LedgerOutcomes("ledger", CurObj) :
                /\ IF e = Nil
                     THEN /\ partRecs' = MarkPart(partRecs, CurObj)
                          /\ trace' = Append(trace, Ev("markpart", CurObj))
                     ELSE /\ trace' = Append(trace, Ev("markerr", CurObj))
                          /\ UNCHANGED partRecs
                /\ IF PartStatusFailed(e)
                     THEN /\ RetPutObjs(e)
                          /\ UNCHANGED j
                     ELSE IF j < Len(pieces)
                            THEN /\ j' = j + 1
                                 /\ pc' = "stat"
                                 /\ UNCHANGED <<info, err, lvl>>
                            ELSE /\ RetPutObjs(Nil)
                                 /\ UNCHANGED j
    /\ UNCHANGED <<i, pieces, soErr, result, id>>
    /\ UNCHANGED <<input, splitter, cleanup, disk, fileStatus, transfers>>

----------------------------------------------------------------------------
\* The process stops in the middle of a run; the ledger and local storage
\* keep what they hold.
Crash ==
    /\ pc \notin {"idle", "done", "crashed"}
    /\ pc' = "crashed"
    /\ UNCHANGED <<lvl, i, j, pieces, info, err, soErr, result, id>>
    /\ UNCHANGED <<input, splitter, cleanup, disk, ledger, trace>>

Next ==
    \/ StartRun
    \/ UD_Spinner
    \/ UD_AfterPut
    \/ PO_Stat
    \/ PO_Open
    \/ PO_PutIssue
    \/ PO_PutReturn
    \/ PO_AfterSplit
    \/ SO_SetMultipart
    \/ SO_Go
    \/ SO_Spinner
    \/ SO_RecvPiece
    \/ SO_RecvDone
    \/ SO_End
    \/ SplitFileProduce
    \/ SplitFileFinish
    \/ POBJS_Spinner
    \/ POBJS_AfterPut

\* One run of UploadDiffs.
Spec == Init /\ [][Next]_vars

\* Runs repeated over the same diffs, each possibly cut short.
NextResume ==
    \/ Next
    \/ Rerun
    \/ Crash

SpecResume == InitResume /\ [][NextResume]_vars

\* The goroutine that called UploadDiffs: every step that is not the
\* splitter's.
Coordinator ==
    \/ StartRun
    \/ UD_Spinner
    \/ UD_AfterPut
    \/ PO_Stat
    \/ PO_Open
    \/ PO_PutIssue
    \/ PO_PutReturn
    \/ PO_AfterSplit
    \/ SO_SetMultipart
    \/ SO_Go
    \/ SO_Spinner
    \/ SO_RecvPiece
    \/ SO_RecvDone
    \/ SO_End
    \/ POBJS_Spinner
    \/ POBJS_AfterPut

\* The goroutine started at line 175.
SplitFile ==
    \/ SplitFileProduce
    \/ SplitFileFinish

\* One run of UploadDiffs under the Go scheduler: a goroutine that stays
\* runnable is eventually run.
SpecFair ==
    /\ Init
    /\ [][Next]_vars
    /\ WF_vars(Coordinator)
    /\ WF_vars(SplitFile)

----------------------------------------------------------------------------
\* Reading the trace of the current run

Has(kind, obj) == \E k \in 1..Len(trace) : trace[k] = Ev(kind, obj)
HasBefore(kind, obj, k) == \E m \in 1..(k - 1) : trace[m] = Ev(kind, obj)
HasAfter(kind, obj, k) == \E m \in (k + 1)..Len(trace) : trace[m] = Ev(kind, obj)

\* The unit was sent down the split path in this run.
SplitInRun(u) == Has("setmp", u)

\* The events of one kind about the pieces of source file f, in order.
PieceEvents(kind, f) ==
    SelectSeq(trace, LAMBDA e : e[1] = kind /\ IsPiece(e[2]) /\ e[2][1] = f)

Paths(evs) == [k \in 1..Len(evs) |-> evs[k][2]]

\* The part records of this run that belong to unit u.
PartsOf(u) == {r \in partRecs : r.path[1] = u[1]}

----------------------------------------------------------------------------
\* C1: a whole (unsplit) file or a part is marked Uploaded only after the Put
\* of that very path returned success in the same run; a Put that failed is
\* never followed by a mark of that path, and the ledger holds no Uploaded
\* status that this run set without such a Put.
C1_UploadedOnlyAfterPut ==
    /\ \A k \in 1..Len(trace) :
         /\ trace[k][1] = "markpart" => HasBefore("putok", trace[k][2], k)
         /\ (trace[k][1] = "markfile" /\ ~SplitInRun(trace[k][2]))
               => HasBefore("putok", trace[k][2], k)
         /\ trace[k][1] = "puterr" =>
               /\ ~HasAfter("markfile", trace[k][2], k)
               /\ ~HasAfter("markpart", trace[k][2], k)
    /\ \A f \in DOMAIN fileStatus :
         (fileStatus[f] # startStatus[f] /\ ~SplitInRun(<<f, 0>>))
            => Has("putok", <<f, 0>>)
    /\ \A r \in partRecs :
         r.status = "Uploaded" => Has("putok", r.path)

\* A run in which a whole file and a part have both been marked Uploaded.
C1_Witness ==
    /\ \E r \in partRecs : r.status = "Uploaded"
    /\ \E f \in DOMAIN fileStatus :
         /\ Has("markfile", <<f, 0>>)
         /\ ~SplitInRun(<<f, 0>>)
         /\ startStatus[f] = "Pending"

----------------------------------------------------------------------------
\* A failure the environment caused: a ledger write, a Put, a spinner, the
\* splitter, or the stat/open of a source file.
EnvFailure(e) ==
    \/ e[1] \in {"ledger", "recparts", "setmp", "spinner", "put", "split"}
    \/ e[1] \in {"stat", "open"} /\ ~IsPiece(e[2])

\* The file being processed was split successfully into at least one piece.
SplitSucceeded ==
    /\ spl = "exited"
    /\ term = Nil
    /\ Len(emitted) >= 1
    /\ SplitInRun(Src)

\* C2: when a file is split successfully into N pieces and no ledger write
\* and no Put fails, UploadDiffs finds every piece on local storage, puts and
\* marks the N parts in sequence order, and returns success.
C2_SplitFileUploadsAllParts ==
    (pc = "done" /\ run >= 1 /\ Len(units) >= 1 /\ SplitSucceeded
        /\ ~EnvFailure(result))
       => /\ result = Nil
          /\ Paths(PieceEvents("putok", Src[1])) = emitted
          /\ Paths(PieceEvents("markpart", Src[1])) = emitted

----------------------------------------------------------------------------
\* The unit was put: the file itself, or every piece recorded for it.
UnitPut(u) ==
    IF SplitInRun(u)
      THEN \A r \in PartsOf(u) : Has("putok", r.path)
      ELSE Has("putok", u)

----------------------------------------------------------------------------
\* C4: when the splitter delivers a non-nil terminal value, splitObject
\* returns that very error, and so do putObject and UploadDiffs.
C4_SplitterErrorPropagates ==
    (spl = "exited" /\ term # Nil)
       => /\ pc = "po_split_ret" => soErr = term
          /\ pc = "ud_ret" => err = term
          /\ pc = "done" => result = term

----------------------------------------------------------------------------
\* The split cycle of the current file is over: the terminal value was
\* received and splitObject has returned.
SplitCycleOver == spl = "exited" /\ pc \notin {"so_end", "crashed"}

\* C5: once a split cycle is over, whatever the terminal value and whether
\* or not recordParts failed, every piece the splitter created was handed to
\* CleanUp, and a piece is still on local storage only if its removal failed.
C5_PiecesCleanedUp ==
    SplitCycleOver
       => /\ Range(emitted) = Range(cleaned)
          /\ \A p \in Range(emitted) : p \in disk => p \in kept

\* A split cycle that ended in a splitter failure after MaxPieces pieces
\* were created, all of them removed.
C5_Witness ==
    /\ SplitCycleOver
    /\ Len(emitted) = MaxPieces
    /\ Range(emitted) \cap disk = {}
    /\ term # Nil
    /\ pc = "po_split_ret"

----------------------------------------------------------------------------
\* C6: the parts of a split file are put in the order the splitter emitted
\* them (the k-th Put is of the k-th piece), one at a time (a Put returns
\* before anything else happens), and the status of a part is committed
\* right after its Put succeeded, before the Put of the next part.
C6_PartsInOrder ==
    /\ \A f \in 1..Len(units) :
         \A k \in 1..Len(PieceEvents("put", f)) :
            PieceEvents("put", f)[k][2] = PiecePath(<<f, 0>>, k)
    /\ lvl = "part" =>
         /\ pieces = emitted
         /\ Len(PieceEvents("put", Src[1])) <= Len(emitted)
    /\ \A k \in 1..Len(trace) :
         /\ (trace[k][1] = "put" /\ k < Len(trace))
               => trace[k + 1] \in {Ev("putok", trace[k][2]),
                                    Ev("puterr", trace[k][2])}
         /\ (trace[k][1] = "putok" /\ IsPiece(trace[k][2]) /\ k < Len(trace))
               => trace[k + 1] \in {Ev("markpart", trace[k][2]),
                                    Ev("markerr", trace[k][2])}
         /\ (trace[k][1] = "put" /\ trace[k][2][2] > 1)
               => HasBefore("markpart", <<trace[k][2][1], trace[k][2][2] - 1>>, k)

\* Two parts of one file were put and marked, the second after the first.
C6_Witness ==
    /\ Has("markpart", <<1, 1>>)
    /\ Has("markpart", <<1, 2>>)

----------------------------------------------------------------------------
\* Number of transfer records the ledger holds for source file u.
TransferCount(u) == Cardinality({k \in 1..Len(transfers) : transfers[k] = u})

\* C7: in a run that starts when some parts of a split file are already
\* marked Uploaded, no Put is issued for a part that was already Uploaded
\* and no second transfer record is created for the source file.
C7_ResumeOnlyRemaining ==
    (run >= 2 /\ startParts # {})
       => /\ \A p \in startParts : ~Has("put", p)
          /\ \A k \in 1..Len(units) : TransferCount(units[k]) <= 1

----------------------------------------------------------------------------
\* The run started on a unit set whose every status was already Uploaded.
AllUploadedAtStart ==
    /\ run >= 1
    /\ \A f \in DOMAIN startStatus : startStatus[f] = "Uploaded"

\* C8 as stated: a run on a unit set whose every status is already Uploaded
\* performs no Put.
C8_NoPutWhenAllUploaded ==
    AllUploadedAtStart => \A k \in 1..Len(trace) : trace[k][1] # "put"

\* C8 amended: a run on a unit set whose every status is already Uploaded
\* leaves every status Uploaded, and skips nothing: when it returns success
\* it has stat'ed every unit and completed a Put for each unit it did not
\* split.
C8_RerunUploadsAgain ==
    AllUploadedAtStart
       => /\ \A f \in DOMAIN fileStatus : fileStatus[f] = "Uploaded"
          /\ (pc = "done" /\ result = Nil)
                => \A k \in 1..Len(units) :
                      /\ Has("stat", units[k])
                      /\ Has("putok", units[k]) \/ SplitInRun(units[k])

\* A successful run over two units that were both already Uploaded, each
\* put again.
C8_Witness ==
    /\ AllUploadedAtStart
    /\ Len(units) = 2
    /\ pc = "done"
    /\ result = Nil
    /\ Has("putok", units[1])
    /\ Has("putok", units[2])

----------------------------------------------------------------------------
\* C9: a failed recordParts makes splitObject, putObject and UploadDiffs
\* return that error with no Put issued for any piece of the file; a failed
\* status commit is the last event of the run and its error is what putObjs
\* and UploadDiffs return.
C9_LedgerFailureFatal ==
    /\ soErr[1] = "recparts" =>
         /\ soErr = Err("recparts", Src)
         /\ PieceEvents("put", Src[1]) = <<>>
         /\ pc \in {"po_split_ret", "ud_ret", "done"}
         /\ pc = "ud_ret" => err = soErr
         /\ pc = "done" => result = soErr
    /\ \A k \in 1..Len(trace) :
         trace[k][1] = "markerr" =>
            /\ k = Len(trace)
            /\ k > 1 /\ trace[k - 1][1] \in {"putok", "markpart", "recparts"}
            /\ pc \in {"ud_ret", "done"}
            /\ pc = "ud_ret" => err = Err("ledger", trace[k][2])
            /\ pc = "done" => result = Err("ledger", trace[k][2])

\* recordParts failed for a file whose pieces are all still on local
\* storage, and UploadDiffs has returned.
C9_Witness ==
    /\ pc = "done"
    /\ result[1] = "recparts"
    /\ Len(pieces) = MaxPieces
    /\ Range(pieces) \subseteq disk

----------------------------------------------------------------------------
\* The sizes of Sizes that are strictly greater than 4294967296.
SizesAbove4GiB == {<<65536, 1>>, <<65537, 0>>}

----------------------------------------------------------------------------
\* C11: a run of UploadDiffs over an empty list of units has returned
\* success as its first and only step, with no stat, open, Put, split or
\* ledger event, no goroutine started, and the ledger and local storage left
\* exactly as they were.
C11_EmptyListNoEffect ==
    (run >= 1 /\ Len(units) = 0)
       => /\ pc = "done"
          /\ result = Nil
          /\ trace = <<>>
          /\ spl = "idle"
          /\ emitted = <<>>
          /\ transfers = <<>>
          /\ partRecs = {}
          /\ fileStatus = startStatus
          /\ disk = {}

\* UploadDiffs has returned from a run over an empty list.
C11_Witness ==
    /\ run = 1
    /\ Len(units) = 0
    /\ pc = "done"

----------------------------------------------------------------------------
\* C12: when the file status of a source file that went down the split path
\* has just been marked Uploaded, its splitter had delivered a terminal
\* success and a Put had succeeded for every piece the splitter produced for
\* it, whatever the number of pieces, zero included.
C12_SplitFileMarkedOnlyAfterFullUpload ==
    (Len(trace) >= 1 /\ trace[Len(trace)][1] = "markfile"
        /\ SplitInRun(trace[Len(trace)][2]))
       => /\ Has("term", trace[Len(trace)][2])
          /\ term = Nil
          /\ \A p \in Range(emitted) : Has("putok", p)

----------------------------------------------------------------------------
\* C13: with a splitter that sends its pieces one after another and then one
\* terminal value, both on unbuffered channels, the receive loop of
\* splitObject holds, at every point of every interleaving, exactly the
\* pieces emitted so far, in emission order, less the one piece the splitter
\* is blocked sending; when the loop exits on the terminal value the
\* collected list equals the emitted sequence.
C13_CollectedEqualsEmitted ==
    /\ pc = "so_loop" =>
         pieces = IF spl = "sendPiece"
                    THEN SubSeq(emitted, 1, Len(emitted) - 1)
                    ELSE emitted
    /\ pc = "so_end" => pieces = emitted
    /\ spl = "exited" => pieces = emitted
    /\ \A k, m \in 1..Len(pieces) : pieces[k] = pieces[m] => k = m

\* The loop has just exited on a terminal success after MaxPieces pieces.
C13_Witness ==
    /\ pc = "so_end"
    /\ term = Nil
    /\ Len(emitted) = MaxPieces
    /\ Len(pieces) = MaxPieces

----------------------------------------------------------------------------
\* C14: once splitObject has started the splitter goroutine for the current
\* file and is no longer before or inside its receive loop, the goroutine
\* has delivered its terminal value: it is not left working or blocked on a
\* send that nobody receives.
C14_SplitterDeliveredBeforeReturn ==
    (run >= 1 /\ Len(units) >= 1 /\ Has("go", Src)
        /\ pc \notin {"so_spinner", "so_loop"})
       => spl = "exited"

----------------------------------------------------------------------------
\* C15: under fair scheduling of the coordinator and of a splitter that
\* emits a finite sequence of pieces and then one terminal value, a receive
\* loop that has been entered is eventually left through End.
C15_ReceiveLoopExits == (pc = "so_loop") ~> (pc = "so_end")

\* The loop was left on a terminal error that came after a piece.
C15_Witness ==
    /\ pc = "so_end"
    /\ term # Nil
    /\ Len(pieces) >= 1

----------------------------------------------------------------------------
\* C16: no step of a run changes a file status or a part record that is
\* Uploaded: a status once Uploaded stays Uploaded, also across the step in
\* which a later unit fails and UploadDiffs returns the error.
C16_UploadedNeverReverts ==
    [][/\ \A f \in DOMAIN fileStatus :
            fileStatus[f] = "Uploaded" => fileStatus'[f] = "Uploaded"
       /\ \A r \in partRecs :
            r.status = "Uploaded" => r \in partRecs']_vars

\* The run was aborted by the failed Put of the second part of the second
\* unit, after the first unit and the first part were marked Uploaded in
\* this run.
C16_Witness ==
    /\ pc = "done"
    /\ result = Err("put", <<2, 2>>)
    /\ startStatus[1] = "Pending"
    /\ fileStatus[1] = "Uploaded"
    /\ \E r \in partRecs : r.path = <<2, 1>> /\ r.status = "Uploaded"

----------------------------------------------------------------------------
\* Number of events of the given kinds in the trace.
Count(kinds) == Cardinality({k \in 1..Len(trace) : trace[k][1] \in kinds})

\* Unit u was put before event k: the file itself, or every piece recorded
\* for it.
UnitPutBefore(u, k) ==
    IF HasBefore("setmp", u, k)
      THEN \A r \in PartsOf(u) : HasBefore("putok", r.path, k)
      ELSE HasBefore("putok", u, k)

====
